---- MODULE Spec2Model ----
(***************************************************************************)
(* Chunked job distribution and coordination engine of DataTransformGPT:   *)
(* the Redis-backed store (src/utils/redis_utils.py), the orchestrator     *)
(* (src/core/distributed_core.py), the worker loop (src/workers/worker.py) *)
(* and the single-process TransformCore (src/core/transform_core.py).      *)
(*                                                                         *)
(* Every Redis command is one atomic step; the Python code between two     *)
(* commands of one process is folded into the step of the command that     *)
(* follows or precedes it.  Processes interleave freely.                   *)
(***************************************************************************)
EXTENDS Integers, Sequences, FiniteSets, TLC

VARIABLES
    queue,      \* Redis list 'task_queue'; head of the sequence = right end (next BRPOP)
    hashes,     \* Redis hashes 'job:<id>': job id -> (field -> value); empty = key absent
    results,    \* Redis strings 'result:<id>:<chunk>': set of [job, chunk, data]
    orch,       \* per caller: the DistributedTransformCore object and its running call
    wrk,        \* per worker: position in worker_process and its locals
    faults,     \* number of failures injected so far (Redis errors, collaborator errors)
    delivered,  \* history: job -> chunk -> number of times get_task handed the task out
    stored,     \* history: job -> chunk ids in the order store_result's SET wrote them
    incd,       \* history: job -> chunk -> number of HINCRBY commands executed for the chunk
    pushed,     \* history: job -> the tasks add_task's LPUSH enqueued, in order
    pushlog,    \* history: <<job_id, chunk_id>> of every enqueued task, in LPUSH order
    CHUNK_SIZE, \* the configured CHUNK_SIZE (config.py), fixed for a behaviour
    sp          \* the Chunk Splitter applied on its own: [pc, total_rows, chunk_size, ranges]
                \* or the row selection applied on its own: [pc, df, search, matches, out]

vars == <<queue, hashes, results, orch, wrk, faults, delivered, stored, incd,
          pushed, pushlog, CHUNK_SIZE, sp>>

(***************************************************************************)
(* Bounds of the model.                                                    *)
(***************************************************************************)
NumWorkers == 2       \* worker processes
MaxRows == 2          \* rows of an input table
MaxChunkSize == 2     \* configured CHUNK_SIZE ranges over 1..MaxChunkSize
MaxFaults == 1        \* injected failures per behaviour
MaxSplitRows == 120   \* total_rows of the splitter applied on its own
MaxSplitChunk == 50   \* chunk_size of the splitter applied on its own
MaxPolls == 3         \* iterations of the wait loop that fit into TIMEOUT
MaxSelectRows == 3    \* rows of the table of the row selection applied on its own
MaxLabel == 3         \* largest index label of that table

\* one orchestrator object making one public call: one job per behaviour
Callers == {1}
\* two orchestrator objects, each making one public call: two jobs in flight
TwoCallers == {1, 2}
Workers == 1..NumWorkers
Jobs == TwoCallers            \* uuid4 job ids: one fresh id per call
ChunkIds == 0..(MaxRows - 1)  \* a job never has more chunks than rows (or one, if empty)

(***************************************************************************)
(* Tables.  A DataFrame is a sequence of rows; a row carries its index     *)
(* label, the identity of the input row it came from and the state of the  *)
(* output cell: "orig" untouched, "tx" written by transform_text, "none"   *)
(* new column holding None, "gen" written by batch_generate_column.        *)
(***************************************************************************)
Row(l, i, c) == [label |-> l, id |-> i, cell |-> c]

\* pd.read_csv / pd.read_excel give the table a RangeIndex 0..n-1
RangeTable(n) == [i \in 1..n |-> Row(i - 1, i, "orig")]

\* the table caller c passes in: its rows are told apart from the rows of
\* any other caller's table
InputTable(c, n) ==
    [i \in 1..n |-> [RangeTable(n)[i] EXCEPT !.id = (c - 1) * MaxRows + i]]

Ids(df) == [i \in 1..Len(df) |-> df[i].id]

SetCell(df, c) == [i \in 1..Len(df) |-> [df[i] EXCEPT !.cell = c]]

RECURSIVE Concat(_)
Concat(tables) ==
    IF tables = <<>> THEN <<>> ELSE Head(tables) \o Concat(Tail(tables))

\* pd.concat(..., ignore_index=True): rows in order, labels renumbered 0..n-1
ConcatIgnoreIndex(tables) ==
    LET rows == Concat(tables)
    IN  [i \in 1..Len(rows) |-> [rows[i] EXCEPT !.label = i - 1]]

\* DataFrame.to_json(): one JSON object entry per row, keyed by the label as a string
to_json(df) ==
    [i \in 1..Len(df) |->
        [key |-> ToString(df[i].label), id |-> df[i].id, cell |-> df[i].cell]]

\* pd.read_json(): the keys are converted back to integer labels
ParseInt(s) == CHOOSE n \in 0..(MaxRows + 1) : ToString(n) = s
read_json(doc) ==
    [i \in 1..Len(doc) |-> Row(ParseInt(doc[i].key), doc[i].id, doc[i].cell)]

(***************************************************************************)
(* Chunk Splitter: DistributedTransformCore._split_dataframe.              *)
(***************************************************************************)
\* a variant that never merges a small last chunk
NumChunks_no_merge(total_rows, chunk_size) ==
    IF total_rows <= chunk_size THEN 1
    ELSE (total_rows + chunk_size - 1) \div chunk_size

\* a variant that merges every partial last chunk, however large
NumChunks_merge_any(total_rows, chunk_size) ==
    IF total_rows <= chunk_size THEN 1
    ELSE LET num_chunks == (total_rows + chunk_size - 1) \div chunk_size
         IN  IF num_chunks > 1 /\ total_rows % chunk_size > 0
             THEN num_chunks - 1
             ELSE num_chunks

\* number of chunks (lines 24-35); CHUNK_SIZE * 0.5 compared as 2 * last < CHUNK_SIZE
NumChunks(total_rows, chunk_size) ==
    IF total_rows <= chunk_size THEN 1
    ELSE LET num_chunks == (total_rows + chunk_size - 1) \div chunk_size
             last_chunk_size == total_rows % chunk_size
         IN  IF num_chunks > 1 /\ last_chunk_size > 0
                /\ 2 * last_chunk_size < chunk_size
             THEN num_chunks - 1
             ELSE num_chunks

\* a variant that cuts chunk_size-row strides and leaves the rest to the last chunk
SplitSizes_strides(total_rows, chunk_size) ==
    IF total_rows <= chunk_size THEN <<total_rows>>
    ELSE LET num_chunks == NumChunks(total_rows, chunk_size)
         IN  [i \in 1..num_chunks |->
                 IF i < num_chunks THEN chunk_size
                 ELSE total_rows - (num_chunks - 1) * chunk_size]

\* a variant that gives the extra rows to the last chunks
SplitSizes_extra_last(total_rows, chunk_size) ==
    IF total_rows <= chunk_size THEN <<total_rows>>
    ELSE LET num_chunks == NumChunks(total_rows, chunk_size)
             base_chunk_size == total_rows \div num_chunks
             remainder == total_rows % num_chunks
         IN  [i \in 1..num_chunks |->
                 base_chunk_size + (IF num_chunks - i < remainder THEN 1 ELSE 0)]

\* the sizes of the chunks in order (lines 25-27 and 37-55)
SplitSizes(total_rows, chunk_size) ==
    IF total_rows <= chunk_size THEN <<total_rows>>
    ELSE LET num_chunks == NumChunks(total_rows, chunk_size)
             base_chunk_size == total_rows \div num_chunks
             remainder == total_rows % num_chunks
         IN  [i \in 1..num_chunks |->
                 base_chunk_size + (IF i - 1 < remainder THEN 1 ELSE 0)]

\* sizes[lo] + ... + sizes[hi], added up by halves
RECURSIVE SumSizes(_, _, _)
SumSizes(sizes, lo, hi) ==
    IF lo > hi THEN 0
    ELSE IF lo = hi THEN sizes[lo]
    ELSE LET mid == (lo + hi) \div 2
         IN  SumSizes(sizes, lo, mid) + SumSizes(sizes, mid + 1, hi)

\* start_idx of chunk i (1-based): the running sum of the sizes before it
StartIdx(sizes, i) == SumSizes(sizes, 1, i - 1)

\* the half-open row ranges [start_idx, end_idx) of the chunks
SplitRanges(total_rows, chunk_size) ==
    LET sizes == SplitSizes(total_rows, chunk_size)
    IN  [i \in 1..Len(sizes) |->
            [start |-> StartIdx(sizes, i), end |-> StartIdx(sizes, i) + sizes[i]]]

\* df[start_idx:end_idx] for every range
split_dataframe(df, chunk_size) ==
    LET ranges == SplitRanges(Len(df), chunk_size)
    IN  [i \in 1..Len(ranges) |-> SubSeq(df, ranges[i].start + 1, ranges[i].end)]

(***************************************************************************)
(* The Redis commands RedisManager issues, as functions on the values.     *)
(***************************************************************************)
EmptyHash == [f \in {} |-> 0]

\* HSET key mapping: overlay the mapping on the hash (creating the key)
hset(h, mapping) ==
    [f \in DOMAIN h \cup DOMAIN mapping |->
        IF f \in DOMAIN mapping THEN mapping[f] ELSE h[f]]

\* dict.get(field, default) on the result of HGETALL
Get(h, field, default) == IF field \in DOMAIN h THEN h[field] ELSE default

\* a lossy variant: the field is overwritten instead of being added to
hincrby_lost(h, field) == hset(h, field :> 1)

\* a variant that also rewrites the status when it counts a chunk
hincrby_and_status(h, field) ==
    hset(h, (field :> (Get(h, field, 0) + 1)) @@ ("status" :> "completed"))

\* HINCRBY key field 1: creates the key and the field (as 0) when absent
hincrby(h, field) == hset(h, field :> (Get(h, field, 0) + 1))

\* a variant that pushes on the end BRPOP takes from (RPUSH)
rpush(q, task) == <<task>> \o q

\* LPUSH pushes on the left end; the sequence is kept right end first
lpush(q, task) == Append(q, task)

\* a variant whose write is acknowledged but not kept
set_lost(rs, job_id, chunk_id, data) == rs

\* SET key value
set(rs, job_id, chunk_id, data) ==
    {r \in rs : ~(r.job = job_id /\ r.chunk = chunk_id)}
        \cup {[job |-> job_id, chunk |-> chunk_id, data |-> data]}

\* GET key: the set of values under the key (empty = None, else one value)
get(rs, job_id, chunk_id) ==
    {r.data : r \in {x \in rs : x.job = job_id /\ x.chunk = chunk_id}}

\* KEYS result:<job_id>:*
keys(rs, job_id) == {r.chunk : r \in {x \in rs : x.job = job_id}}

\* a variant whose keys leave out the job id
delete_any(rs, job_id, chunk_ids) == {r \in rs : r.chunk \notin chunk_ids}

\* DEL key...
delete(rs, job_id, chunk_ids) ==
    {r \in rs : ~(r.job = job_id /\ r.chunk \in chunk_ids)}

(***************************************************************************)
(* Failure injection: a Redis command or a collaborator connection may     *)
(* fail while the budget lasts.                                            *)
(***************************************************************************)
Outcomes == IF faults < MaxFaults THEN {TRUE, FALSE} ELSE {TRUE}
Charge(ok) == faults' = IF ok THEN faults ELSE faults + 1

(***************************************************************************)
(* Per-chunk processing routines of the worker and the local core.         *)
(***************************************************************************)
\* every row's output cell is written with transform_text's value
process_transform_chunk(chunk_df) == SetCell(chunk_df, "tx")

\* the new column is written with batch_generate_column's values
process_generate_chunk(chunk_df) == SetCell(chunk_df, "gen")

\* the ascending list of the elements of a finite set of naturals
RECURSIVE SortedSeq(_)
SortedSeq(S) ==
    IF S = {} THEN <<>>
    ELSE LET m == CHOOSE x \in S : \A y \in S : x <= y
         IN  <<m>> \o SortedSeq(S \ {m})

\* a variant that falls back to every row when the filter marks none
prepare_search_filter_all(df, search, matches) ==
    IF ~search \/ {p \in matches : p < Len(df)} = {}
    THEN [i \in 1..Len(df) |-> df[i].label]
    ELSE SortedSeq({p \in matches : p < Len(df)})

\* _prepare_search_filter: the labels of all rows, or the positions the
\* row-filter collaborator marked (matches = set of 0-based positions)
prepare_search_filter(df, search, matches) ==
    IF ~search THEN [i \in 1..Len(df) |-> df[i].label]
    ELSE SortedSeq({p \in matches : p < Len(df)})

\* df.iloc[matching_rows]: positional selection, labels kept
iloc(df, rows) == [k \in 1..Len(rows) |-> df[rows[k] + 1]]

NoError == "None"

\* TransformCore.process_dataframe: every row is kept, the rows whose label
\* is in matching_rows are transformed
local_process_dataframe(df, search, matches) ==
    LET matching_rows ==
            IF search THEN {p \in matches : p < Len(df)}
            ELSE {df[i].label : i \in 1..Len(df)}
    IN  IF search /\ matching_rows = {}
        THEN [df |-> df, err |-> "No matching rows found"]
        ELSE [df |-> [i \in 1..Len(df) |->
                        IF df[i].label \in matching_rows
                        THEN [df[i] EXCEPT !.cell = "tx"] ELSE df[i]],
              err |-> NoError]

\* TransformCore.generate_column: every row gets a generated value
local_generate_column(df) == [df |-> SetCell(df, "gen"), err |-> NoError]

(***************************************************************************)
(* Initial state: an empty store, objects not yet constructed.             *)
(***************************************************************************)
NoTable == <<>>
\* time.sleep(0.1) in the wait loop against its one-second report interval
SleepsPerSecond == 10
NoReturn == [df |-> NoTable, err |-> NoError]

OrchInit ==
    [pc |-> "new",            \* position in __init__ / the public operation
     op |-> "none",           \* "transform" (process_dataframe) or "generate"
     df |-> NoTable,          \* the input table
     search |-> FALSE,        \* a search_description was supplied
     matches |-> {},          \* positions find_matching_rows marks as matching
     chunks |-> <<>>,         \* the chunks returned by _split_dataframe
     next |-> 0,              \* chunk_id of the next task to enqueue
     completed |-> 0,         \* completed_chunks read by the last poll
     polled |-> FALSE,        \* the wait loop has run at least once
     callback |-> FALSE,      \* a progress_callback is passed to the operation
     since |-> SleepsPerSecond, \* sleeps of the wait loop since last_progress_update
     prev |-> {},             \* completed_chunks read by the poll before the last, if any
     called |-> {},           \* the completed the last poll passed to the callback, if any
     reported |-> {},         \* every completed passed to the callback so far
     slept |-> {},            \* sleeps of the wait loop since start_time, where timed
     cidx |-> 0,              \* chunk_id of the next result to fetch
     processed |-> <<>>,      \* processed_chunks collected so far
     keyset |-> {},           \* the keys found by cleanup_job's KEYS
     published |-> FALSE,     \* set_job_metadata or add_task reached the store
     failure |-> "none",      \* the exception raised inside the operation, if any
     after |-> NoReturn,      \* the value to return once cleanup_job is over
     ret |-> NoReturn]        \* the returned pair (table, error)

NoTask ==
    [job_id |-> 0, chunk_id |-> 0, data |-> <<>>, total_chunks |-> 0,
     task_type |-> "none"]

WrkInit == [pc |-> "start", task |-> NoTask, processed |-> <<>>, kill_now |-> FALSE]

SplitIdle == [pc |-> "idle", total_rows |-> 0, chunk_size |-> 1, ranges |-> <<>>]

Init ==
    /\ queue = <<>>
    /\ hashes = [j \in Jobs |-> EmptyHash]
    /\ results = {}
    /\ orch = [c \in Jobs |-> OrchInit]
    /\ wrk = [w \in Workers |-> WrkInit]
    /\ faults = 0
    /\ delivered = [j \in Jobs |-> [k \in ChunkIds |-> 0]]
    /\ stored = [j \in Jobs |-> <<>>]
    /\ incd = [j \in Jobs |-> [k \in ChunkIds |-> 0]]
    /\ pushed = [j \in Jobs |-> <<>>]
    /\ pushlog = <<>>
    /\ CHUNK_SIZE \in 1..MaxChunkSize
    /\ sp = SplitIdle

history == <<delivered, stored, incd, pushed, pushlog>>
store == <<queue, hashes, results>>

(***************************************************************************)
(* Orchestrator: DistributedTransformCore.                                 *)
(***************************************************************************)
\* __init__: RedisManager() pings the server; a failed ping raises out of
\* RedisManager.__init__ and out of DistributedTransformCore.__init__
construct(c) ==
    /\ orch[c].pc = "new"
    /\ \E ok \in Outcomes :
        /\ Charge(ok)
        /\ orch' = [orch EXCEPT ![c].pc = IF ok THEN "ready" ELSE "ctor_raised"]
    /\ UNCHANGED <<store, wrk, history, CHUNK_SIZE, sp>>

\* the message of the pair returned after an exception
ErrorMessage(op, what) ==
    IF op = "generate" THEN "Error generating column: " \o what
    ELSE IF what = "Processing timeout" THEN "Processing timeout: " \o what
    ELSE "Error during transformation: " \o what

\* a variant that lets the exception escape the operation
handle_exception_reraise(o, what) == [o EXCEPT !.pc = "raised", !.failure = what]

\* the except clauses of both operations: cleanup_job, then return (df, message)
handle_exception(o, what) ==
    [o EXCEPT !.pc = "clean_meta", !.failure = what,
              !.after = [df |-> o.df, err |-> ErrorMessage(o.op, what)]]

\* return without touching the store
return(o, df, err) == [o EXCEPT !.pc = "returned", !.ret = [df |-> df, err |-> err]]

\* process_dataframe up to the first store command (lines 71-90)
process_dataframe(c) ==
    /\ orch[c].pc = "ready"
    /\ \E n \in 0..MaxRows, search \in BOOLEAN :
       \E matches \in (IF search THEN SUBSET (0..(n - 1)) ELSE {{}}) :
        LET df == InputTable(c, n)
            o == [orch[c] EXCEPT !.op = "transform", !.df = df,
                                 !.search = search, !.matches = matches]
            matching_rows == prepare_search_filter(df, search, matches)
            chunks == split_dataframe(iloc(df, matching_rows), CHUNK_SIZE)
        IN  orch' = [orch EXCEPT ![c] =
                IF matching_rows = <<>> THEN return(o, df, "No matching rows found")
                ELSE IF Len(chunks) = 0
                     THEN return(o, df, "No chunks created for processing")
                     ELSE [o EXCEPT !.pc = "set_meta", !.chunks = chunks]]
    /\ UNCHANGED <<store, wrk, faults, history, CHUNK_SIZE, sp>>

\* generate_column up to the first store command (lines 174-181)
generate_column(c) ==
    /\ orch[c].pc = "ready"
    /\ \E n \in 0..MaxRows :
        LET df == InputTable(c, n)
        IN  orch' = [orch EXCEPT ![c] =
                [@ EXCEPT !.op = "generate", !.df = df, !.pc = "set_meta",
                          !.chunks = split_dataframe(df, CHUNK_SIZE)]]
    /\ UNCHANGED <<store, wrk, faults, history, CHUNK_SIZE, sp>>

\* a variant that records the counters only, without the task parameters
Metadata_counters_only(o) ==
    [total_chunks |-> Len(o.chunks), completed_chunks |-> 0]

\* the metadata mapping written for the job (lines 93-102, 184-195)
Metadata(o) ==
    IF o.op = "transform"
    THEN [total_chunks |-> Len(o.chunks), completed_chunks |-> 0,
          status |-> "processing", commands |-> "column_commands",
          task_type |-> "transform"]
    ELSE [total_chunks |-> Len(o.chunks), completed_chunks |-> 0,
          status |-> "processing", reference_columns |-> "reference_columns",
          new_column_name |-> "new_column_name",
          generation_prompt |-> "generation_prompt", task_type |-> "generate"]

\* RedisManager.set_job_metadata: HSET, re-raising a store error
set_job_metadata(c) ==
    /\ orch[c].pc = "set_meta"
    /\ \E ok \in Outcomes :
        /\ Charge(ok)
        /\ IF ok
           THEN /\ hashes' = [hashes EXCEPT ![c] = hset(@, Metadata(orch[c]))]
                /\ orch' = [orch EXCEPT ![c].pc = "publish", ![c].published = TRUE]
           ELSE /\ orch' = [orch EXCEPT ![c] = handle_exception(@, "redis error")]
                /\ UNCHANGED hashes
    /\ UNCHANGED <<queue, results, wrk, history, CHUNK_SIZE, sp>>

\* a variant that numbers the chunks from 1
Task_from_one(c, chunk_id) ==
    [job_id |-> c, chunk_id |-> chunk_id + 1,
     data |-> to_json(orch[c].chunks[chunk_id + 1]),
     total_chunks |-> Len(orch[c].chunks), task_type |-> orch[c].op]

\* the task built for chunk_id (lines 106-112, 199-205)
Task(c, chunk_id) ==
    [job_id |-> c, chunk_id |-> chunk_id,
     data |-> to_json(orch[c].chunks[chunk_id + 1]),
     total_chunks |-> Len(orch[c].chunks), task_type |-> orch[c].op]

\* RedisManager.add_task for the next chunk: LPUSH, re-raising a store error
add_task(c) ==
    /\ orch[c].pc = "publish"
    /\ \E ok \in Outcomes :
        /\ Charge(ok)
        /\ IF ok
           THEN /\ queue' = lpush(queue, Task(c, orch[c].next))
                /\ pushed' = [pushed EXCEPT ![c] = Append(@, Task(c, orch[c].next))]
                /\ pushlog' = Append(pushlog, <<c, orch[c].next>>)
                /\ orch' = [orch EXCEPT
                        ![c].next = @ + 1,
                        ![c].pc = IF orch[c].next + 1 = Len(orch[c].chunks)
                                  THEN "wait" ELSE "publish"]
           ELSE /\ orch' = [orch EXCEPT ![c] = handle_exception(@, "redis error")]
                /\ UNCHANGED <<queue, pushed, pushlog>>
    /\ UNCHANGED <<hashes, results, wrk, delivered, stored, incd, CHUNK_SIZE, sp>>

\* a variant that never finds the hash
get_job_metadata_none(job_id, ok) == EmptyHash

\* RedisManager.get_job_metadata: HGETALL, an empty dict on a store error
get_job_metadata(job_id, ok) == IF ok THEN hashes[job_id] ELSE EmptyHash

\* whether current_time - last_progress_update >= 1 may hold at a poll:
\* last_progress_update starts at 0, so the first poll always reports; later
\* the loop has slept 0.1 s since times since the last report, so a second
\* has certainly passed after SleepsPerSecond sleeps and may have passed
\* earlier (the store's latency and the scheduler add to the sleeps)
Elapsed(since) == IF since >= SleepsPerSecond THEN {TRUE} ELSE BOOLEAN

\* lines 237-242: progress_callback(completed / total_chunks) at most once
\* per second; without a callback the timer has no effect and is not kept
report(o, completed, due) ==
    IF ~o.callback THEN o
    ELSE IF due
         THEN [o EXCEPT !.prev = IF o.polled THEN {o.completed} ELSE {},
                        !.called = {completed},
                        !.reported = @ \cup {completed}, !.since = 1]
         ELSE [o EXCEPT !.prev = IF o.polled THEN {o.completed} ELSE {},
                        !.called = {}, !.since = @ + 1]

\* the while test (line 232), where the sleeps are counted: every iteration
\* sleeps 0.1 s, so no more than MaxPolls iterations start before TIMEOUT
within_timeout(slept) == \A n \in slept : n < MaxPolls

\* time.sleep(0.1) at the end of an iteration (line 248)
sleep(slept) == {n + 1 : n \in slept}

\* a variant that takes the job as processed only beyond its total
all_processed_beyond(completed, total_chunks) == completed > total_chunks

\* the break test of the wait loop (line 245)
all_processed(completed, total_chunks) == completed = total_chunks

\* one iteration of the wait loop of _wait_for_results (lines 232-248)
wait_poll(c) ==
    /\ orch[c].pc = "wait"
    /\ within_timeout(orch[c].slept)
    /\ \E ok \in Outcomes, due \in Elapsed(orch[c].since) :
        /\ Charge(ok)
        /\ LET job_data == get_job_metadata(c, ok)
               completed == Get(job_data, "completed_chunks", 0)
           IN  orch' = [orch EXCEPT ![c] =
                   [report(@, completed, due) EXCEPT
                       !.completed = completed, !.polled = TRUE,
                       !.slept = IF all_processed(completed, Len(orch[c].chunks))
                                 THEN @ ELSE sleep(@),
                       !.pc = IF all_processed(completed, Len(orch[c].chunks))
                              THEN "collect" ELSE "wait"]]
    /\ UNCHANGED <<store, wrk, history, CHUNK_SIZE, sp>>

\* the message of the TimeoutError raised after a last poll that read
\* completed of total chunks (line 251)
TimeoutError(completed, total) == "Processing timeout"

\* the loop ends because TIMEOUT elapsed: TimeoutError (lines 250-251)
wait_timeout(c) ==
    /\ orch[c].pc = "wait"
    /\ orch[c].polled
    /\ ~all_processed(orch[c].completed, Len(orch[c].chunks))
    /\ orch' = [orch EXCEPT ![c] =
            handle_exception(@, TimeoutError(@.completed, Len(@.chunks)))]
    /\ UNCHANGED <<store, wrk, faults, history, CHUNK_SIZE, sp>>

\* the table _wait_for_results falls back to: df, or df with the new column None
BaseDf(o) == IF o.op = "generate" THEN SetCell(o.df, "none") ELSE o.df

\* processed_chunks.sort(key=chunk_id)
SortByChunkId(processed_chunks) ==
    LET n == Len(processed_chunks)
        ids == SortedSeq({processed_chunks[i].chunk_id : i \in 1..n})
    IN  [i \in 1..n |->
            (CHOOSE p \in {processed_chunks[k] : k \in 1..n} : p.chunk_id = ids[i])]

\* a variant that concatenates in descending chunk_id
combine_reversed(processed_chunks, base_df) ==
    LET sorted == SortByChunkId(processed_chunks)
        n == Len(sorted)
    IN  IF n > 0 THEN ConcatIgnoreIndex([i \in 1..n |-> sorted[n + 1 - i].df])
        ELSE base_df

\* a variant that puts the fetched chunks after the base table
combine_onto_base(processed_chunks, base_df) ==
    LET sorted == SortByChunkId(processed_chunks)
    IN  ConcatIgnoreIndex(<<base_df>> \o [i \in 1..Len(sorted) |-> sorted[i].df])

\* lines 261-266: sort by chunk_id and concatenate, or fall back to base_df
combine(processed_chunks, base_df) ==
    LET sorted == SortByChunkId(processed_chunks)
    IN  IF Len(sorted) > 0
        THEN ConcatIgnoreIndex([i \in 1..Len(sorted) |-> sorted[i].df])
        ELSE base_df

\* a variant that still hands out the value when the command failed
get_result_despite(job_id, chunk_id, ok) == get(results, job_id, chunk_id)

\* RedisManager.get_result: GET, None on a store error
get_result(job_id, chunk_id, ok) ==
    IF ok THEN get(results, job_id, chunk_id) ELSE {}

\* one iteration of the collection loop (lines 255-259); after the last one
\* the chunks are combined and cleanup_job starts (lines 261-271)
collect_result(c) ==
    /\ orch[c].pc = "collect"
    /\ \E ok \in Outcomes :
        /\ Charge(ok)
        /\ LET o == orch[c]
               chunk_data == get_result(c, o.cidx, ok)
               processed ==
                   IF chunk_data # {}
                   THEN Append(o.processed,
                               [chunk_id |-> o.cidx,
                                df |-> read_json(CHOOSE d \in chunk_data : TRUE)])
                   ELSE o.processed
           IN  orch' = [orch EXCEPT ![c] =
                   IF o.cidx + 1 < Len(o.chunks)
                   THEN [o EXCEPT !.cidx = @ + 1, !.processed = processed]
                   ELSE [o EXCEPT !.cidx = @ + 1, !.processed = processed,
                                  !.pc = "clean_meta",
                                  !.after = [df |-> combine(processed, BaseDf(o)),
                                             err |-> NoError]]]
    /\ UNCHANGED <<store, wrk, history, CHUNK_SIZE, sp>>

\* cleanup_job is over (normally or by its swallowed exception): the
\* operation returns the pending pair
finish(o) == [o EXCEPT !.pc = "returned", !.ret = o.after]

\* RedisManager.cleanup_job, first command: DEL job:<id>
cleanup_del_meta(c) ==
    /\ orch[c].pc = "clean_meta"
    /\ \E ok \in Outcomes :
        /\ Charge(ok)
        /\ IF ok
           THEN /\ hashes' = [hashes EXCEPT ![c] = EmptyHash]
                /\ orch' = [orch EXCEPT ![c].pc = "clean_keys"]
           ELSE /\ orch' = [orch EXCEPT ![c] = finish(@)]
                /\ UNCHANGED hashes
    /\ UNCHANGED <<queue, results, wrk, history, CHUNK_SIZE, sp>>

\* RedisManager.cleanup_job, second command: KEYS result:<id>:*
cleanup_keys(c) ==
    /\ orch[c].pc = "clean_keys"
    /\ \E ok \in Outcomes :
        /\ Charge(ok)
        /\ LET found == IF ok THEN keys(results, c) ELSE {}
           IN  orch' = [orch EXCEPT ![c] =
                   IF found = {} THEN finish(@)
                   ELSE [@ EXCEPT !.pc = "clean_del", !.keyset = found]]
    /\ UNCHANGED <<store, wrk, history, CHUNK_SIZE, sp>>

\* RedisManager.cleanup_job, third command: DEL of the keys found
cleanup_del_keys(c) ==
    /\ orch[c].pc = "clean_del"
    /\ \E ok \in Outcomes :
        /\ Charge(ok)
        /\ results' = IF ok THEN delete(results, c, orch[c].keyset) ELSE results
        /\ orch' = [orch EXCEPT ![c] = finish(@)]
    /\ UNCHANGED <<queue, hashes, wrk, history, CHUNK_SIZE, sp>>

(***************************************************************************)
(* Worker loop: worker_process.                                            *)
(***************************************************************************)
\* RedisManager() in worker_process: a failed ping ends the process
worker_start(w) ==
    /\ wrk[w].pc = "start"
    /\ \E ok \in Outcomes :
        /\ Charge(ok)
        /\ wrk' = [wrk EXCEPT ![w].pc = IF ok THEN "loop" ELSE "dead"]
    /\ UNCHANGED <<store, orch, history, CHUNK_SIZE, sp>>

\* a variant that reads the right-most element without removing it
brpop_peek(q) == [task |-> Head(q), rest |-> q]

\* BRPOP task_queue: the right-most element and the list without it
brpop(q) == [task |-> Head(q), rest |-> Tail(q)]

Bump(h, job_id, chunk_id) == [h EXCEPT ![job_id][chunk_id] = @ + 1]

\* RedisManager.get_task: BRPOP returning a task; an empty queue or a store
\* error returns None and the loop starts over
\* "in_get" is the position of a worker that a signal reached inside
\* get_task, after it had tested kill_now: there None sends it back to the test
get_task(w) ==
    /\ \/ wrk[w].pc = "loop" /\ ~wrk[w].kill_now
       \/ wrk[w].pc = "in_get"
    /\ \E ok \in Outcomes :
        /\ Charge(ok)
        /\ IF ok /\ queue # <<>>
           THEN LET popped == brpop(queue)
                IN  /\ queue' = popped.rest
                    /\ wrk' = [wrk EXCEPT ![w].pc = "have_task", ![w].task = popped.task]
                    /\ delivered' = Bump(delivered, popped.task.job_id, popped.task.chunk_id)
           ELSE /\ wrk[w].pc = "in_get" \/ ~ok
                /\ wrk' = [wrk EXCEPT ![w].pc = "loop"]
                /\ UNCHANGED <<queue, delivered>>
    /\ UNCHANGED <<hashes, results, orch, stored, incd, pushed, pushlog, CHUNK_SIZE, sp>>

\* the fields the task type reads from job_data (lines 122, 126-128)
Needed(task_type) ==
    IF task_type = "transform" THEN {"commands"}
    ELSE {"reference_columns", "new_column_name", "generation_prompt"}

\* a variant that processes the chunk whatever job_data holds
can_process_always(job_data, task_type) == TRUE

\* lines 113-115 and the subscripts of lines 122, 126-128: the chunk is
\* processed when job_data is not empty and holds the fields of the task type
can_process(job_data, task_type) ==
    /\ DOMAIN job_data # {}
    /\ Needed(task_type) \subseteq DOMAIN job_data

\* lines 110-135: open the collaborator connection, read the job metadata,
\* skip the task if there is none, else process the chunk; any exception
\* (connection failure, missing field) is logged and the loop starts over
process_chunk(w) ==
    /\ wrk[w].pc = "have_task"
    /\ \E ok \in Outcomes :
        /\ Charge(ok)
        /\ LET task == wrk[w].task
               job_data == get_job_metadata(task.job_id, ok)
               chunk_df == read_json(task.data)
               processed_df ==
                   IF task.task_type = "transform"
                   THEN process_transform_chunk(chunk_df)
                   ELSE process_generate_chunk(chunk_df)
           IN  wrk' = [wrk EXCEPT ![w] =
                   IF can_process(job_data, task.task_type)
                   THEN [@ EXCEPT !.pc = "store", !.processed = to_json(processed_df)]
                   ELSE [@ EXCEPT !.pc = "loop", !.task = NoTask]]
    /\ UNCHANGED <<store, orch, history, CHUNK_SIZE, sp>>

\* a variant whose handler goes back to the task it failed on
on_exception_retry(r) == [r EXCEPT !.pc = "have_task", !.processed = <<>>]

\* lines 144-146: the exception is logged, the task is dropped and, after a
\* one-second sleep, the loop starts over
on_exception(r) == [r EXCEPT !.pc = "loop", !.task = NoTask, !.processed = <<>>]

\* RedisManager.store_result: SET, re-raising a store error (the worker logs
\* it and starts over)
store_result(w) ==
    /\ wrk[w].pc = "store"
    /\ \E ok \in Outcomes :
        /\ Charge(ok)
        /\ LET task == wrk[w].task
           IN  IF ok
               THEN /\ results' = set(results, task.job_id, task.chunk_id, wrk[w].processed)
                    /\ stored' = [stored EXCEPT ![task.job_id] = Append(@, task.chunk_id)]
                    /\ wrk' = [wrk EXCEPT ![w].pc = "incr", ![w].processed = <<>>]
               ELSE /\ wrk' = [wrk EXCEPT ![w] = on_exception(@)]
                    /\ UNCHANGED <<results, stored>>
    /\ UNCHANGED <<queue, hashes, orch, delivered, incd, pushed, pushlog, CHUNK_SIZE, sp>>

\* RedisManager.increment_completed: HINCRBY, a store error is swallowed
increment_completed(w) ==
    /\ wrk[w].pc = "incr"
    /\ \E ok \in Outcomes :
        /\ Charge(ok)
        /\ LET task == wrk[w].task
           IN  IF ok
               THEN /\ hashes' = [hashes EXCEPT ![task.job_id] = hincrby(@, "completed_chunks")]
                    /\ incd' = Bump(incd, task.job_id, task.chunk_id)
               ELSE UNCHANGED <<hashes, incd>>
        /\ wrk' = [wrk EXCEPT ![w] = [@ EXCEPT !.pc = "loop", !.task = NoTask]]
    /\ UNCHANGED <<queue, results, orch, delivered, stored, pushed, pushlog, CHUNK_SIZE, sp>>

\* the worker process dies while it holds a task (killed, out of memory,
\* host lost): nothing in worker_process runs any more
worker_crash(w) ==
    /\ wrk[w].pc \in {"have_task", "store", "incr"}
    /\ wrk' = [wrk EXCEPT ![w] = [WrkInit EXCEPT !.pc = "dead"]]
    /\ UNCHANGED <<store, orch, faults, history, CHUNK_SIZE, sp>>

\* GracefulKiller.exit_gracefully: SIGINT or SIGTERM sets kill_now and the
\* interrupted code resumes; a worker waiting in get_task had either not yet
\* tested kill_now for this iteration or already tested it
exit_gracefully(w) ==
    /\ wrk[w].pc \notin {"dead", "exited"}
    /\ ~wrk[w].kill_now
    /\ \E tested \in (IF wrk[w].pc = "loop" THEN BOOLEAN ELSE {FALSE}) :
        wrk' = [wrk EXCEPT ![w].kill_now = TRUE,
                           ![w].pc = IF tested THEN "in_get" ELSE @]
    /\ UNCHANGED <<store, orch, faults, history, CHUNK_SIZE, sp>>

\* a variant in which the signal ends the loop wherever the worker is
leaves_loop_anywhere(r) ==
    r.kill_now /\ r.pc \in {"loop", "in_get", "have_task", "store", "incr"}

\* line 97: while not killer.kill_now, tested at the top of an iteration
leaves_loop(r) == r.kill_now /\ r.pc = "loop"

\* the loop ends and worker_process returns (line 146)
worker_exit(w) ==
    /\ leaves_loop(wrk[w])
    /\ wrk' = [wrk EXCEPT ![w].pc = "exited"]
    /\ UNCHANGED <<store, orch, faults, history, CHUNK_SIZE, sp>>

(***************************************************************************)
(* The system: callers and workers interleave on the shared store.         *)
(***************************************************************************)
Next ==
    \/ \E c \in Callers : construct(c)
    \/ \E c \in Callers : process_dataframe(c)
    \/ \E c \in Callers : generate_column(c)
    \/ \E c \in Callers : set_job_metadata(c)
    \/ \E c \in Callers : add_task(c)
    \/ \E c \in Callers : wait_poll(c)
    \/ \E c \in Callers : wait_timeout(c)
    \/ \E c \in Callers : collect_result(c)
    \/ \E c \in Callers : cleanup_del_meta(c)
    \/ \E c \in Callers : cleanup_keys(c)
    \/ \E c \in Callers : cleanup_del_keys(c)
    \/ \E w \in Workers : worker_start(w)
    \/ \E w \in Workers : get_task(w)
    \/ \E w \in Workers : process_chunk(w)
    \/ \E w \in Workers : store_result(w)
    \/ \E w \in Workers : increment_completed(w)

Spec == Init /\ [][Next]_vars

(***************************************************************************)
(* The Chunk Splitter applied on its own to every (total_rows, chunk_size) *)
(* within the bounds.                                                      *)
(***************************************************************************)
InitSplit ==
    /\ queue = <<>>
    /\ hashes = [j \in Jobs |-> EmptyHash]
    /\ results = {}
    /\ orch = [c \in Jobs |-> OrchInit]
    /\ wrk = [w \in Workers |-> WrkInit]
    /\ faults = 0
    /\ delivered = [j \in Jobs |-> [k \in ChunkIds |-> 0]]
    /\ stored = [j \in Jobs |-> <<>>]
    /\ incd = [j \in Jobs |-> [k \in ChunkIds |-> 0]]
    /\ pushed = [j \in Jobs |-> <<>>]
    /\ pushlog = <<>>
    /\ CHUNK_SIZE = 1
    /\ \E n \in 0..MaxSplitRows, cs \in 1..MaxSplitChunk :
        sp = [pc |-> "call", total_rows |-> n, chunk_size |-> cs, ranges |-> <<>>]

split_apply ==
    /\ sp.pc = "call"
    /\ sp' = [sp EXCEPT !.pc = "done",
                        !.ranges = SplitRanges(sp.total_rows, sp.chunk_size)]
    /\ UNCHANGED <<store, orch, wrk, faults, history, CHUNK_SIZE>>

NextSplit == split_apply

SpecSplit == InitSplit /\ [][NextSplit]_vars

(***************************************************************************)
(* The row selection of process_dataframe (lines 77-86) applied on its own *)
(* to tables with any index labels, with and without a search description. *)
(***************************************************************************)
\* a table of n rows whose row i carries the index label labels[i]
LabelledTable(labels) == [i \in 1..Len(labels) |-> Row(labels[i], i, "orig")]

\* lines 78-86: the rows process_dataframe hands to _split_dataframe, or the
\* early return; df.iloc raises IndexError for a position outside the table,
\* which the except clause of line 125 turns into an error return
select_rows(df, search, matches) ==
    LET matching_rows == prepare_search_filter(df, search, matches)
    IN  IF matching_rows = <<>>
        THEN [called |-> FALSE, handed |-> NoTable, err |-> "No matching rows found"]
        ELSE IF \E k \in 1..Len(matching_rows) : matching_rows[k] >= Len(df)
             THEN [called |-> FALSE, handed |-> NoTable,
                   err |-> ErrorMessage("transform", "IndexError")]
             ELSE [called |-> TRUE, handed |-> iloc(df, matching_rows), err |-> NoError]

InitSelect ==
    /\ queue = <<>>
    /\ hashes = [j \in Jobs |-> EmptyHash]
    /\ results = {}
    /\ orch = [c \in Jobs |-> OrchInit]
    /\ wrk = [w \in Workers |-> WrkInit]
    /\ faults = 0
    /\ delivered = [j \in Jobs |-> [k \in ChunkIds |-> 0]]
    /\ stored = [j \in Jobs |-> <<>>]
    /\ incd = [j \in Jobs |-> [k \in ChunkIds |-> 0]]
    /\ pushed = [j \in Jobs |-> <<>>]
    /\ pushlog = <<>>
    /\ CHUNK_SIZE = 1
    /\ \E n \in 0..MaxSelectRows, search \in BOOLEAN :
       \E labels \in [1..n -> 0..MaxLabel] :
       \E matches \in (IF search THEN SUBSET (0..(n - 1)) ELSE {{}}) :
        sp = [pc |-> "call", df |-> LabelledTable(labels), search |-> search,
              matches |-> matches,
              out |-> [called |-> FALSE, handed |-> NoTable, err |-> NoError]]

select_apply ==
    /\ sp.pc = "call"
    /\ sp' = [sp EXCEPT !.pc = "done",
                        !.out = select_rows(sp.df, sp.search, sp.matches)]
    /\ UNCHANGED <<store, orch, wrk, faults, history, CHUNK_SIZE>>

NextSelect == select_apply

SpecSelect == InitSelect /\ [][NextSelect]_vars

(***************************************************************************)
(* The same system started in other situations.                            *)
(***************************************************************************)
\* an empty store, the orchestrator objects and the worker processes in the
\* given states, f failures already spent
StartWith(o, procs, f) ==
    /\ queue = <<>>
    /\ hashes = [j \in Jobs |-> EmptyHash]
    /\ results = {}
    /\ orch = o
    /\ wrk = procs
    /\ faults = f
    /\ delivered = [j \in Jobs |-> [k \in ChunkIds |-> 0]]
    /\ stored = [j \in Jobs |-> <<>>]
    /\ incd = [j \in Jobs |-> [k \in ChunkIds |-> 0]]
    /\ pushed = [j \in Jobs |-> <<>>]
    /\ pushlog = <<>>
    /\ CHUNK_SIZE \in 1..MaxChunkSize
    /\ sp = SplitIdle

\* the caller passes a progress_callback (app.py passes update_progress)
InitProgress ==
    StartWith([c \in Jobs |-> [OrchInit EXCEPT !.callback = TRUE]],
              [w \in Workers |-> WrkInit], 0)

SpecProgress == InitProgress /\ [][Next]_vars

\* the workers receive SIGINT or SIGTERM at any moment
InitKill == StartWith([c \in Jobs |-> OrchInit], [w \in Workers |-> WrkInit], 0)

NextKill ==
    \/ Next
    \/ \E w \in Workers : exit_gracefully(w)
    \/ \E w \in Workers : worker_exit(w)

\* a worker process that can take a step eventually takes one: every call in
\* the loop returns (BRPOP has a one-second timeout) and nothing blocks it
WorkerStep(w) ==
    \/ worker_start(w)
    \/ get_task(w)
    \/ process_chunk(w)
    \/ store_result(w)
    \/ increment_completed(w)
    \/ worker_exit(w)

SpecKill ==
    InitKill /\ [][NextKill]_vars /\ \A w \in Workers : WF_vars(WorkerStep(w))

\* worker processes may die while they hold a task
InitCrash == StartWith([c \in Jobs |-> OrchInit], [w \in Workers |-> WrkInit], 0)

NextCrash ==
    \/ Next
    \/ \E w \in Workers : worker_crash(w)

SpecCrash == InitCrash /\ [][NextCrash]_vars

\* at least one worker runs, no store command and no collaborator call fails,
\* and TIMEOUT does not elapse
InitLive ==
    \E running \in SUBSET Workers \ {{}} :
        StartWith([c \in Jobs |-> OrchInit],
                  [w \in Workers |-> IF w \in running THEN WrkInit
                                     ELSE [WrkInit EXCEPT !.pc = "dead"]],
                  MaxFaults)

\* the steps of caller c's thread while TIMEOUT has not elapsed
CallerStep(c) ==
    \/ construct(c)
    \/ process_dataframe(c)
    \/ generate_column(c)
    \/ set_job_metadata(c)
    \/ add_task(c)
    \/ wait_poll(c)
    \/ collect_result(c)
    \/ cleanup_del_meta(c)
    \/ cleanup_keys(c)
    \/ cleanup_del_keys(c)

\* the steps of a worker process that receives no signal
LoopStep(w) ==
    \/ worker_start(w)
    \/ get_task(w)
    \/ process_chunk(w)
    \/ store_result(w)
    \/ increment_completed(w)

NextLive ==
    \/ \E c \in Callers : CallerStep(c)
    \/ \E w \in Workers : LoopStep(w)

\* fair scheduling: a caller's thread and a worker process that can take a
\* step eventually take one
SpecLive ==
    /\ InitLive /\ [][NextLive]_vars
    /\ \A c \in Callers : WF_vars(CallerStep(c))
    /\ \A w \in Workers : WF_vars(LoopStep(w))

\* the sleeps of the wait loop are counted against TIMEOUT; store commands
\* may fail and worker processes may die
InitWait ==
    StartWith([c \in Jobs |-> [OrchInit EXCEPT !.slept = {0}]],
              [w \in Workers |-> WrkInit], 0)

\* the steps of caller c's thread, the end of the wait by TIMEOUT included
ThreadStep(c) == CallerStep(c) \/ wait_timeout(c)

\* the caller's thread keeps running; nothing is assumed of the workers
SpecWait ==
    /\ InitWait /\ [][NextCrash]_vars
    /\ \A c \in Callers : WF_vars(ThreadStep(c))

\* two callers, each running one job, and one worker process serving both,
\* on a store that does not fail
InitTwo ==
    StartWith([c \in Jobs |-> OrchInit],
              [w \in Workers |-> IF w = 1 THEN WrkInit
                                 ELSE [WrkInit EXCEPT !.pc = "dead"]],
              MaxFaults)

NextTwo ==
    \/ \E c \in TwoCallers : construct(c)
    \/ \E c \in TwoCallers : process_dataframe(c)
    \/ \E c \in TwoCallers : generate_column(c)
    \/ \E c \in TwoCallers : set_job_metadata(c)
    \/ \E c \in TwoCallers : add_task(c)
    \/ \E c \in TwoCallers : wait_poll(c)
    \/ \E c \in TwoCallers : wait_timeout(c)
    \/ \E c \in TwoCallers : collect_result(c)
    \/ \E c \in TwoCallers : cleanup_del_meta(c)
    \/ \E c \in TwoCallers : cleanup_keys(c)
    \/ \E c \in TwoCallers : cleanup_del_keys(c)
    \/ \E w \in Workers : worker_start(w)
    \/ \E w \in Workers : get_task(w)
    \/ \E w \in Workers : process_chunk(w)
    \/ \E w \in Workers : store_result(w)
    \/ \E w \in Workers : increment_completed(w)

SpecTwo == InitTwo /\ [][NextTwo]_vars

(***************************************************************************)
(* Properties.                                                             *)
(***************************************************************************)
Returned(c) == orch[c].pc = "returned"
Succeeded(c) == Returned(c) /\ orch[c].ret.err = NoError
TotalChunks(c) == Len(orch[c].chunks)

\* the store holds neither job:<id> nor any result:<id>:<chunk>
Purged(j) == DOMAIN hashes[j] = {} /\ keys(results, j) = {}

\* the job's hash exists and cleanup_job has not deleted it yet
Live(j) == orch[j].published /\ orch[j].pc \in {"publish", "wait", "collect", "clean_meta"}

RECURSIVE SumUpTo(_, _)
SumUpTo(f, k) == IF k < 0 THEN 0 ELSE f[k] + SumUpTo(f, k - 1)
Increments(j) == SumUpTo(incd[j], MaxRows - 1)

InQueue(j, k) == Cardinality({i \in 1..Len(queue) :
                                queue[i].job_id = j /\ queue[i].chunk_id = k})
Writes(j, k) == Cardinality({i \in 1..Len(stored[j]) : stored[j][i] = k})

\* C1: for every job whose hash is in the store, 0 <= completed_chunks <=
\* total_chunks (the fields read as monitor_progress reads them, an absent
\* field as 0).  The code breaks it: increment_completed after cleanup_job
\* re-creates job:<id> holding completed_chunks = 1 and no total_chunks
\* (stated for runs without any injected failure).
C1_CompletedWithinTotal ==
    \A j \in Jobs :
        (faults = 0 /\ DOMAIN hashes[j] # {}) =>
            /\ 0 <= Get(hashes[j], "completed_chunks", 0)
            /\ Get(hashes[j], "completed_chunks", 0) <= Get(hashes[j], "total_chunks", 0)

\* C2: once the public operation has returned for a published job, the store
\* holds no job:<id> and no result:<id>:<chunk> entry, in this and in every
\* later state (stated for runs without any injected failure).
C2_NoJobOutlivesCall ==
    \A c \in Callers :
        (faults = 0 /\ Returned(c) /\ orch[c].published) => Purged(c)

\* C3: each published task is either still queued or was handed out by
\* get_task exactly once; each result is written at most once and each
\* chunk increments completed_chunks at most once.
C3_ExactlyOneDelivery ==
    \A j \in Jobs : \A k \in ChunkIds :
        /\ delivered[j][k] <= 1
        /\ Writes(j, k) <= 1
        /\ incd[j][k] <= 1
        /\ incd[j][k] <= Writes(j, k)
        /\ Writes(j, k) <= delivered[j][k]
        /\ InQueue(j, k) + delivered[j][k] = (IF k < orch[j].next THEN 1 ELSE 0)

\* two workers hold tasks of the same job at the same time, one of them
\* having stored its result
C3_Witness ==
    \E v, w \in Workers :
        /\ v # w
        /\ wrk[v].pc = "incr" /\ wrk[w].pc = "store"
        /\ wrk[v].task.job_id = wrk[w].task.job_id
        /\ queue = <<>>

\* C4: while a job is live its completed_chunks equals the number of
\* increment_completed commands the workers executed for it.
C4_NoLostUpdate ==
    \A j \in Jobs :
        Live(j) => Get(hashes[j], "completed_chunks", 0) = Increments(j)

\* two chunks of a live job were finished, by two different workers' increments
C4_Witness ==
    \E j \in Jobs :
        /\ Live(j) /\ Increments(j) = 2
        /\ orch[j].pc = "wait"
        /\ stored[j] = <<1, 0>>

\* C5: a job without row filter that completes returns rows in ascending
\* input order whatever order the workers finished in, and when every
\* chunk's result was fetched the rows are exactly the input rows in input
\* order, labelled 0..n-1.
C5_ReassemblyOrder ==
    \A c \in Callers :
        (Succeeded(c) /\ ~orch[c].search) =>
            LET out == orch[c].ret.df
            IN  /\ \A i \in 1..(Len(out) - 1) : out[i].id < out[i + 1].id
                /\ \A i \in 1..Len(out) : out[i].label = i - 1
                /\ \A i \in 1..(Len(orch[c].processed) - 1) :
                        orch[c].processed[i].chunk_id < orch[c].processed[i + 1].chunk_id
                /\ Len(orch[c].processed) = TotalChunks(c) => Ids(out) = Ids(orch[c].df)

\* a two-chunk job completed although chunk 1 was finished before chunk 0
C5_Witness ==
    \E c \in Callers :
        /\ Succeeded(c) /\ ~orch[c].search
        /\ stored[c] = <<1, 0>>
        /\ Len(orch[c].processed) = 2
        /\ Len(orch[c].ret.df) = 2

\* C7: at the step by which an operation whose wait ended by timeout
\* returns, it returns the input table with a timeout error and the store
\* holds no entry of the job (stated for runs without any injected failure).
C7_TimeoutPurges ==
    [][\A c \in Callers :
          (faults' = 0 /\ ~Returned(c) /\ Returned(c)'
              /\ orch[c].failure = "Processing timeout") =>
            /\ orch'[c].ret.df = orch[c].df
            /\ orch'[c].ret.err = ErrorMessage(orch[c].op, "Processing timeout")
            /\ Purged(c)']_vars

\* C8: construction succeeds even when the store cannot be reached.
C8_ConstructionSucceeds ==
    \A c \in Callers : orch[c].pc # "ctor_raised"

\* C9: a successful distributed run returns the table the local
\* single-process run returns for the same input, filter and collaborators
\* (stated for runs without any injected failure).
C9_FallbackEquivalence ==
    \A c \in Callers :
        (faults = 0 /\ Succeeded(c)) =>
            orch[c].ret.df =
                (IF orch[c].op = "transform"
                 THEN local_process_dataframe(orch[c].df, orch[c].search,
                                              orch[c].matches).df
                 ELSE local_generate_column(orch[c].df).df)

\* C10: no exception leaves a public operation: after any failure inside it
\* the operation returns the input table and a non-empty error message.
C10_NeverRaises ==
    \A c \in Callers :
        /\ orch[c].pc # "raised"
        /\ orch[c].failure # "none" =>
              orch[c].pc \in {"clean_meta", "clean_keys", "clean_del", "returned"}
        /\ (Returned(c) /\ orch[c].failure # "none") =>
              /\ orch[c].ret.df = orch[c].df
              /\ orch[c].ret.err \notin {NoError, ""}

\* a store write failed while tasks were being published, and the call returned
C10_Witness ==
    \E c \in Callers :
        /\ Returned(c) /\ orch[c].failure = "redis error"
        /\ orch[c].published /\ orch[c].next = 1

\* C11: when a search description is supplied and the row filter marks no
\* row, process_dataframe returns the input table with "No matching rows
\* found", and it has written no job metadata and enqueued no task.
C11_NoMatchTouchesNothing ==
    \A c \in Jobs :
        (orch[c].op = "transform" /\ orch[c].search
            /\ \A p \in orch[c].matches : p >= Len(orch[c].df)) =>
            /\ Returned(c)
            /\ orch[c].ret = [df |-> orch[c].df, err |-> "No matching rows found"]
            /\ ~orch[c].published
            /\ pushed[c] = <<>>
            /\ DOMAIN hashes[c] = {}
            /\ \A i \in 1..Len(queue) : queue[i].job_id # c

\* a two-row table was searched, no row matched, and the call returned while
\* a worker was waiting for tasks
C11_Witness ==
    \E c \in Callers :
        /\ Returned(c) /\ orch[c].search /\ orch[c].matches = {}
        /\ Len(orch[c].df) = 2
        /\ \E w \in Workers : wrk[w].pc = "loop"

\* C12: when a progress callback is supplied and the wait loop detected
\* completion, the callback has been invoked with 1.0 (completed =
\* total_chunks) by the time the operation returns successfully (stated for
\* runs without any injected failure).
C12_TerminalProgress ==
    \A c \in Jobs :
        (faults = 0 /\ orch[c].callback /\ Succeeded(c)) =>
            TotalChunks(c) \in orch[c].reported

\* C13: from the second poll on, the wait loop invokes the callback exactly
\* when the completed_chunks it read differs from the previous poll's, and
\* with the value it read (stated for runs without any injected failure).
C13_ReportOnChange ==
    \A c \in Jobs :
        (faults = 0 /\ orch[c].callback /\ orch[c].prev # {}) =>
            /\ orch[c].called # {} <=> orch[c].prev # {orch[c].completed}
            /\ orch[c].called \subseteq {orch[c].completed}

\* C14: the completed_chunks values the polls of one job observe never
\* decrease: no poll reads less than the poll before it.
C14_ProgressMonotone ==
    [][\A c \in Jobs :
          (orch[c].polled /\ orch[c].pc = "wait") =>
              orch'[c].completed >= orch[c].completed]_vars

\* the same, on a store that executes every command (no injected failure)
C14_MonotoneWithoutFailure ==
    [][\A c \in Jobs :
          (faults' = 0 /\ orch[c].polled /\ orch[c].pc = "wait") =>
              orch'[c].completed >= orch[c].completed]_vars

\* C15: a worker holding a popped task whose job has no metadata in the
\* store skips the task: its step stores no result, increments nothing,
\* leaves the store as it is and takes the worker back to the top of its loop.
C15_MissingMetadataSkipped ==
    [][\A w \in Workers :
          (wrk[w].pc = "have_task" /\ wrk'[w] # wrk[w]
              /\ DOMAIN hashes[wrk[w].task.job_id] = {}) =>
            /\ wrk'[w].pc = "loop" /\ wrk'[w].task = NoTask
            /\ UNCHANGED <<queue, hashes, results, stored, incd>>]_vars

\* on a store that never failed, the only task of a job was handed out after
\* the job had been cleaned up, and the worker is back in its loop without
\* having written anything
C15_Witness ==
    \E c \in Callers :
        /\ faults = 0 /\ Returned(c) /\ TotalChunks(c) = 1
        /\ delivered[c][0] = 1 /\ stored[c] = <<>> /\ Purged(c)
        /\ \A w \in Workers : wrk[w].pc \in {"start", "loop"}

\* C16: a worker that received SIGINT or SIGTERM eventually leaves its loop
\* and exits; it exits only from the top of the loop, holding no task; and
\* with the signal received, the next step of a worker that has processed a
\* chunk still stores the result, and the step after it still increments
\* completed_chunks (unless the store command itself fails).
C16_GracefulShutdown ==
    /\ [](\A w \in Workers :
            wrk[w].pc = "exited" => (wrk[w].kill_now /\ wrk[w].task = NoTask))
    /\ \A w \in Workers :
          wrk[w].kill_now ~> wrk[w].pc \in {"exited", "dead"}
    /\ [][\A w \in Workers :
            (wrk[w].kill_now /\ wrk'[w] # wrk[w] /\ faults' = faults) =>
              LET task == wrk[w].task
              IN  /\ wrk[w].pc = "store" =>
                        /\ wrk'[w].pc = "incr" /\ wrk'[w].task = task
                        /\ get(results', task.job_id, task.chunk_id) = {wrk[w].processed}
                  /\ wrk[w].pc = "incr" =>
                        /\ wrk'[w].pc = "loop"
                        /\ incd'[task.job_id][task.chunk_id] =
                               incd[task.job_id][task.chunk_id] + 1
                        /\ Get(hashes'[task.job_id], "completed_chunks", 0) =
                               Get(hashes[task.job_id], "completed_chunks", 0) + 1]_vars

\* a signal reached a worker while it was processing a chunk; the worker has
\* stored the result and is about to increment, the other worker has exited
C16_Witness ==
    \E v, w \in Workers :
        /\ wrk[w].kill_now /\ wrk[w].pc = "incr"
        /\ wrk[v].pc = "exited"

\* C17: with two jobs in flight, a step performed for one job (by its
\* orchestrator, or by a worker on one of its tasks) leaves the other job's
\* metadata and results as they are, and the table a job's call returns holds
\* rows of that job's input table only.
C17_JobsDoNotInterfere ==
    /\ [][\A a, b \in TwoCallers :
            (/\ a # b
             /\ \/ orch'[a] # orch[a]
                \/ \E w \in Workers :
                      /\ wrk'[w] # wrk[w]
                      /\ a \in {wrk[w].task.job_id, wrk'[w].task.job_id}
                      /\ b \notin {wrk[w].task.job_id, wrk'[w].task.job_id}) =>
              /\ hashes'[b] = hashes[b]
              /\ {r \in results' : r.job = b} = {r \in results : r.job = b}]_vars
    /\ [](\A b \in TwoCallers :
            Returned(b) =>
                \A i \in 1..Len(orch[b].ret.df) :
                    \E k \in 1..Len(orch[b].df) :
                        orch[b].ret.df[i].id = orch[b].df[k].id)

\* job 1 completed with both its rows and was cleaned up while job 2 was
\* collecting its results from the store
C17_Witness ==
    /\ Succeeded(1) /\ Len(orch[1].ret.df) = 2
    /\ orch[2].pc = "collect" /\ keys(results, 2) # {}

\* C18: the tasks a job's orchestrator enqueued are, in the order of their
\* LPUSH, the tasks of chunk_ids 0, 1, 2, ... each once, each carrying the
\* job's total_chunks (the value recorded in its metadata) and its chunk's
\* rows; once publishing is over there are exactly total_chunks of them.
C18_PublishesEachChunkOnce ==
    \A j \in Jobs :
        /\ Len(pushed[j]) = orch[j].next
        /\ \A i \in 1..Len(pushed[j]) :
              /\ pushed[j][i].job_id = j
              /\ pushed[j][i].chunk_id = i - 1
              /\ pushed[j][i].total_chunks = TotalChunks(j)
              /\ pushed[j][i].data = to_json(orch[j].chunks[i])
        /\ (Live(j) /\ pushed[j] # <<>>) =>
              Get(hashes[j], "total_chunks", 0) = pushed[j][1].total_chunks
        /\ orch[j].pc \in {"wait", "collect"} => Len(pushed[j]) = TotalChunks(j)
        /\ orch[j].failure \in {"none", "Processing timeout"} =>
              Len(pushed[j]) \in {0, TotalChunks(j)} \/ orch[j].pc = "publish"

\* both tasks of a two-chunk job are enqueued and the orchestrator waits
C18_Witness ==
    \E c \in Callers :
        /\ orch[c].pc = "wait" /\ Len(pushed[c]) = 2
        /\ InQueue(c, 0) = 1 /\ InQueue(c, 1) = 1

\* C19: whenever a task of a job is in the queue or held by a worker and the
\* job's orchestrator has not yet started deleting the job, the job's
\* metadata is in the store: total_chunks, completed_chunks, status
\* "processing", the task type and the parameters the workers read.
C19_MetadataBeforeTasks ==
    \A j \in Jobs :
        (/\ orch[j].pc \in {"set_meta", "publish", "wait", "collect", "clean_meta"}
         /\ \/ \E i \in 1..Len(queue) : queue[i].job_id = j
            \/ \E w \in Workers : wrk[w].task.job_id = j) =>
            /\ {"total_chunks", "completed_chunks", "status", "task_type"}
                    \cup Needed(orch[j].op) \subseteq DOMAIN hashes[j]
            /\ hashes[j]["total_chunks"] = TotalChunks(j)
            /\ hashes[j]["completed_chunks"] \in 0..TotalChunks(j)
            /\ hashes[j]["status"] = "processing"
            /\ hashes[j]["task_type"] = orch[j].op

\* a task is queued, another is held by a worker that has stored its result,
\* and the orchestrator is still publishing or waiting
C19_Witness ==
    \E c \in Callers : \E w \in Workers :
        /\ orch[c].pc \in {"publish", "wait"}
        /\ wrk[w].pc = "incr" /\ wrk[w].task.job_id = c
        /\ \E i \in 1..Len(queue) : queue[i].job_id = c

\* C20: the splitter returns one chunk when total_rows <= chunk_size;
\* otherwise ceil(total_rows / chunk_size) chunks, one fewer exactly when
\* total_rows mod chunk_size is non-zero and smaller than half of chunk_size;
\* total_rows = 60 with chunk_size = 50 gives one chunk of 60 rows.
C20_NumberOfChunks ==
    sp.pc = "done" =>
        LET n == sp.total_rows
            cs == sp.chunk_size
            ceil == CHOOSE q \in 0..n : q * cs >= n /\ (q - 1) * cs < n
            rest == n - cs * (n \div cs)
            expected == IF n <= cs THEN 1
                        ELSE IF rest # 0 /\ 2 * rest < cs THEN ceil - 1
                        ELSE ceil
        IN  /\ Len(sp.ranges) = expected
            /\ (n = 60 /\ cs = 50) => sp.ranges = <<[start |-> 0, end |-> 60]>>

\* the splitter was applied to 60 rows with chunk_size 50 and returned one chunk
C20_Witness ==
    /\ sp.pc = "done" /\ sp.total_rows = 60 /\ sp.chunk_size = 50
    /\ Len(sp.ranges) = 1

\* C21: when the merge-small-tail rule did not trigger, the sizes of the
\* chunks the splitter returns differ by at most one row.
C21_BalancedSizes ==
    LET n == sp.total_rows
        cs == sp.chunk_size
        merged == n > cs /\ n % cs # 0 /\ 2 * (n % cs) < cs
        size(i) == sp.ranges[i].end - sp.ranges[i].start
    IN  (sp.pc = "done" /\ ~merged) =>
            \A i, j \in 1..Len(sp.ranges) : size(i) - size(j) <= 1

\* 110 rows with chunk_size 40: no merge (the tail of 30 is not under half),
\* three chunks of 37, 37 and 36 rows
C21_Witness ==
    /\ sp.pc = "done" /\ sp.total_rows = 110 /\ sp.chunk_size = 40
    /\ Len(sp.ranges) = 3
    /\ sp.ranges[1].end - sp.ranges[1].start = 37
    /\ sp.ranges[3].end - sp.ranges[3].start = 36

\* C22: for total_rows = 0 the splitter returns the empty list of chunks.
C22_EmptyInputNoChunks ==
    (sp.pc = "done" /\ sp.total_rows = 0) => sp.ranges = <<>>

\* C23: an operation called on an empty table (whose partition has no
\* chunk to process) never publishes a job, and returns the input table
\* with a failure message (stated for runs without any injected failure).
C23_EmptyPartitionNotPublished ==
    \A c \in Jobs :
        (faults = 0 /\ orch[c].op # "none" /\ Len(orch[c].df) = 0) =>
            /\ ~orch[c].published
            /\ pushed[c] = <<>>
            /\ DOMAIN hashes[c] = {}
            /\ Returned(c) => (orch[c].ret.df = orch[c].df /\ orch[c].ret.err # NoError)

\* C24: the error message returned after a timeout carries the pair
\* (completed, total) of the last poll: it is not the message a timeout with
\* any other pair would have produced (stated for runs without any injected
\* failure).
C24_TimeoutCarriesCounts ==
    \A c \in Jobs :
        (faults = 0 /\ Returned(c) /\ orch[c].failure = "Processing timeout") =>
            \A completed \in 0..MaxRows, total \in 1..MaxRows :
                <<completed, total>> # <<orch[c].completed, TotalChunks(c)>> =>
                    orch[c].ret.err # ErrorMessage(orch[c].op, TimeoutError(completed, total))

\* C25: at reassembly a chunk whose result GET does not deliver is skipped
\* and a delivered one is kept; the call then succeeds with the rows of the
\* kept results in ascending chunk_id, or, when none was kept, with the base
\* table (the input, for generate_column with the new column holding None).
C25_MissingResultsSkipped ==
    /\ [][\A c \in Callers :
            (orch[c].pc = "collect" /\ orch'[c] # orch[c]) =>
              LET k == orch[c].cidx
                  chunk_data == IF faults' = faults THEN get(results, c, k) ELSE {}
              IN  /\ orch'[c].pc \in {"collect", "clean_meta"}
                  /\ orch'[c].failure = "none"
                  /\ chunk_data = {} => orch'[c].processed = orch[c].processed
                  /\ \A d \in chunk_data :
                        orch'[c].processed =
                            Append(orch[c].processed, [chunk_id |-> k, df |-> read_json(d)])]_vars
    /\ [](\A c \in Callers :
            Succeeded(c) =>
              LET kept == orch[c].processed
                  rows == Concat([i \in 1..Len(kept) |-> kept[i].df])
                  out == orch[c].ret.df
              IN  /\ \A i \in 1..(Len(kept) - 1) : kept[i].chunk_id < kept[i + 1].chunk_id
                  /\ kept # <<>> =>
                        /\ Len(out) = Len(rows)
                        /\ \A i \in 1..Len(out) :
                              out[i].id = rows[i].id /\ out[i].cell = rows[i].cell
                  /\ kept = <<>> =>
                        out = (IF orch[c].op = "generate"
                               THEN [i \in 1..Len(orch[c].df) |->
                                        [orch[c].df[i] EXCEPT !.cell = "none"]]
                               ELSE orch[c].df))

\* a two-chunk job succeeded with the result of chunk 1 only, the GET of
\* chunk 0 having failed
C25_Witness ==
    \E c \in Callers :
        /\ Succeeded(c) /\ TotalChunks(c) = 2
        /\ Len(orch[c].processed) = 1 /\ orch[c].processed[1].chunk_id = 1
        /\ Len(orch[c].ret.df) = 1

\* job j's chunk k was handed to a worker that no longer holds it and never
\* counted it
Dropped(j, k) ==
    /\ delivered[j][k] = 1 /\ incd[j][k] = 0
    /\ \A w \in Workers :
          ~(wrk[w].task.job_id = j /\ wrk[w].task.chunk_id = k
              /\ wrk[w].pc \in {"have_task", "store", "incr"})

\* C26: a task a worker popped and then lost (the worker died, or its
\* store_result raised) is not put back and not handed out again: the
\* exception handler drops it and leaves the queue alone; the job's
\* completed_chunks stays below total_chunks while the job is live, the
\* orchestrator never starts collecting, and its call returns an error: the
\* timeout, unless a store command of the orchestrator itself failed.
C26_NoRedelivery ==
    /\ [][\A w \in Workers :
            (wrk[w].pc = "store" /\ wrk'[w] # wrk[w] /\ wrk'[w].pc # "incr") =>
                /\ wrk'[w].task = NoTask
                /\ wrk'[w].pc \in {"loop", "dead"}
                /\ queue' = queue]_vars
    /\ [](\A j \in Callers : \A k \in ChunkIds :
            Dropped(j, k) =>
                /\ InQueue(j, k) = 0
                /\ Live(j) => Get(hashes[j], "completed_chunks", 0) < TotalChunks(j)
                /\ orch[j].pc # "collect"
                /\ Returned(j) => orch[j].failure # "none"
                /\ (Returned(j) /\ faults = 0) =>
                        orch[j].failure = "Processing timeout")

\* a worker died holding the only task of a job after storing its result;
\* the orchestrator's wait timed out and the call returned
C26_Witness ==
    \E j \in Callers : \E w \in Workers :
        /\ Dropped(j, 0) /\ Writes(j, 0) = 1 /\ wrk[w].pc = "dead"
        /\ faults = 0
        /\ Returned(j) /\ orch[j].failure = "Processing timeout"

\* C27: get_task hands tasks out in the order add_task enqueued them: the
\* task a worker pops is the earliest enqueued task not handed out before,
\* so a job's chunks are popped in ascending chunk_id and the tasks of a job
\* published earlier are popped before those of a job published later.
C27_QueueIsFifo ==
    [][\A w \in Workers :
          (wrk'[w].pc = "have_task" /\ wrk[w].pc # "have_task") =>
            LET t == wrk'[w].task
                waiting == {i \in 1..Len(pushlog) :
                              delivered[pushlog[i][1]][pushlog[i][2]] = 0}
                first == CHOOSE i \in waiting : \A x \in waiting : i <= x
            IN  /\ waiting # {}
                /\ pushlog[first] = <<t.job_id, t.chunk_id>>
                /\ \A k \in 0..(t.chunk_id - 1) : delivered[t.job_id][k] = 1]_vars

\* job 2 enqueued its first task before job 1 enqueued its own, and the
\* worker, having been handed job 2's task, now holds job 1's
C27_Witness ==
    /\ Len(pushlog) >= 2 /\ pushlog[1] = <<2, 0>> /\ pushlog[2] = <<1, 0>>
    /\ delivered[2][0] = 1 /\ delivered[1][0] = 1
    /\ wrk[1].pc = "have_task" /\ wrk[1].task.job_id = 1

\* C28: a job's hash is created holding completed_chunks = 0; while it is
\* in the store every field but completed_chunks keeps its value, and the
\* only change a worker makes to it is completed_chunks + 1, made by the
\* increment that ends a chunk; nothing else changes it but its deletion.
C28_MetadataFrame ==
    [][\A j \in Jobs :
          hashes'[j] # hashes[j] =>
            \/ /\ DOMAIN hashes[j] = {}
               /\ orch[j].pc = "set_meta"
               /\ hashes'[j]["completed_chunks"] = 0
               /\ hashes'[j]["total_chunks"] = TotalChunks(j)
            \/ /\ hashes'[j] = EmptyHash
               /\ orch[j].pc = "clean_meta"
            \/ /\ \A f \in DOMAIN hashes[j] \ {"completed_chunks"} :
                     f \in DOMAIN hashes'[j] /\ hashes'[j][f] = hashes[j][f]
               /\ DOMAIN hashes'[j] = DOMAIN hashes[j] \cup {"completed_chunks"}
               /\ hashes'[j]["completed_chunks"] =
                     Get(hashes[j], "completed_chunks", 0) + 1
               /\ \E w \in Workers :
                     /\ wrk[w].pc = "incr" /\ wrk[w].task.job_id = j
                     /\ wrk'[w].pc = "loop"
                     /\ incd'[j][wrk[w].task.chunk_id] = 1]_vars

\* both chunks of a live two-chunk job are counted and the hash still holds
\* the values written at creation
C28_Witness ==
    \E j \in Callers :
        /\ Live(j) /\ TotalChunks(j) = 2
        /\ hashes[j]["completed_chunks"] = 2
        /\ hashes[j]["total_chunks"] = 2 /\ hashes[j]["status"] = "processing"

\* C29: a live job's completed_chunks never exceeds the number of results
\* stored for it; so while the orchestrator collects, having read
\* completed_chunks = total_chunks, a result is in the store for every
\* chunk_id below total_chunks, and (every GET being answered) the chunks
\* fetched so far are all the chunk_ids below the next one to fetch.
C29_ResultBeforeCount ==
    \A j \in Jobs :
        /\ Live(j) =>
              Get(hashes[j], "completed_chunks", 0) <= Cardinality(keys(results, j))
        /\ orch[j].pc = "collect" =>
              /\ orch[j].completed = TotalChunks(j)
              /\ keys(results, j) = 0..(TotalChunks(j) - 1)
              /\ faults = 0 =>
                    {orch[j].processed[i].chunk_id : i \in 1..Len(orch[j].processed)}
                        = 0..(orch[j].cidx - 1)
        /\ (Succeeded(j) /\ faults = 0) => Len(orch[j].processed) = TotalChunks(j)

\* the orchestrator has fetched chunk 0 of a two-chunk job whose chunk 1 was
\* stored first
C29_Witness ==
    \E j \in Callers :
        /\ orch[j].pc = "collect" /\ orch[j].cidx = 1 /\ Len(orch[j].processed) = 1
        /\ stored[j] = <<1, 0>> /\ keys(results, j) = {0, 1}

\* C30: with at least one worker running, no failure and fair scheduling,
\* every published job eventually has completed_chunks = total_chunks in
\* the store, and the orchestrator eventually returns the reassembled table
\* without error while the queue holds no task of the job.
C30_JobsComplete ==
    \A c \in Callers :
        /\ (orch[c].published /\ orch[c].pc = "publish") ~>
              (Live(c) /\ Get(hashes[c], "completed_chunks", 0) = TotalChunks(c))
        /\ orch[c].published ~>
              /\ Succeeded(c)
              /\ Ids(orch[c].ret.df) = Ids(iloc(orch[c].df,
                      prepare_search_filter(orch[c].df, orch[c].search, orch[c].matches)))
              /\ \A i \in 1..Len(queue) : queue[i].job_id # c

\* a two-chunk job completed and returned with one of the workers not running
C30_Witness ==
    \E c \in Callers : \E w \in Workers :
        /\ Succeeded(c) /\ TotalChunks(c) = 2 /\ Len(orch[c].ret.df) = 2
        /\ wrk[w].pc = "dead" /\ queue = <<>>

\* C31: the wait always ends, in one of two ways: a poll that reads
\* completed_chunks >= total_chunks leaves the loop at once for the
\* collection of the results, and otherwise the loop ends by the timeout,
\* raising "Processing timeout" after a last poll that read fewer; whatever
\* the workers do, a caller that waits eventually waits no more.
C31_WaitTerminates ==
    /\ [][\A c \in Callers :
            (orch[c].pc = "wait" /\ orch'[c] # orch[c]) =>
                /\ orch'[c].pc \in {"wait", "collect", "clean_meta"}
                /\ orch'[c].pc \in {"wait", "collect"} =>
                      /\ orch'[c].polled
                      /\ (orch'[c].pc = "collect") <=>
                            (orch'[c].completed >= Len(orch[c].chunks))
                /\ orch'[c].pc = "clean_meta" =>
                      /\ orch'[c].failure = "Processing timeout"
                      /\ orch[c].polled
                      /\ orch[c].completed < Len(orch[c].chunks)]_vars
    /\ \A c \in Callers :
          (orch[c].pc = "wait") ~> (orch[c].pc \in {"collect", "clean_meta"})

\* the loop slept through the whole of TIMEOUT and ended with the timeout
\* while a worker that had popped the job's task was dead
C31_Witness ==
    \E c \in Callers : \E w \in Workers :
        /\ orch[c].failure = "Processing timeout"
        /\ orch[c].slept = {MaxPolls}
        /\ wrk[w].pc = "dead" /\ delivered[c][0] = 1


\* a timed-out job whose cleanup_job is over
TimedOut(j) == Returned(j) /\ orch[j].failure = "Processing timeout"

\* the steps of cleanup_job leave the task queue as it is
CleanupKeepsQueue ==
    [][\A c \in Callers :
          (orch[c].pc \in {"clean_meta", "clean_keys", "clean_del"}
              /\ orch'[c] # orch[c]) => queue' = queue]_vars

\* the step that follows the pop of a task of a timed-out job writes nothing
\* and takes the worker back to its loop (no store command failing)
StaleTaskWritesNothing ==
    [][\A w \in Workers :
          (wrk[w].pc = "have_task" /\ wrk'[w] # wrk[w] /\ faults' = 0
              /\ TimedOut(wrk[w].task.job_id)) =>
            /\ wrk'[w].pc = "loop" /\ wrk'[w].task = NoTask
            /\ UNCHANGED <<queue, hashes, results, stored, incd>>]_vars

\* C32: cleanup_job leaves the task queue unchanged; a task of a timed-out
\* job that a worker pops after cleanup_job finds no metadata of its job, so
\* that the missing-metadata check discards it, and the worker's step on it
\* writes nothing to the store (stated for runs without any injected failure).
C32_StaleTasksSkipped ==
    /\ CleanupKeepsQueue
    /\ StaleTaskWritesNothing
    /\ [][\A w \in Workers :
            (wrk[w].pc # "have_task" /\ wrk'[w].pc = "have_task" /\ faults' = 0
                /\ TimedOut(wrk'[w].task.job_id)) =>
              DOMAIN hashes[wrk'[w].task.job_id] = {}]_vars


\* C33: a store command that fails has no effect on the store, and its error
\* is swallowed by the reading and counting operations and re-raised by the
\* writing ones: after a failed read the poll counts 0 completed chunks, the
\* collection skips the chunk, the worker starts its loop over (a failed
\* metadata read drops the popped task like a missing job), a failed
\* increment is passed over and a failed cleanup returns normally, while a
\* failed set_job_metadata or add_task ends the operation through its
\* exception handler and a failed store_result ends the worker's iteration
\* without incrementing; a chunk that was stored and then dropped without
\* being counted is never counted.
C33_StoreErrors ==
    /\ [][faults' = faults + 1 =>
            /\ UNCHANGED <<queue, hashes, results, stored, incd, delivered>>
            /\ \A c \in Callers : orch'[c] # orch[c] =>
                  LET o == orch[c]
                      n == orch'[c]
                  IN  /\ o.pc \in {"set_meta", "publish"} =>
                            (n.pc = "clean_meta" /\ n.failure = "redis error")
                      /\ o.pc = "wait" =>
                            (n.pc = "wait" /\ n.completed = 0 /\ n.failure = "none")
                      /\ o.pc = "collect" =>
                            /\ n.processed = o.processed /\ n.failure = "none"
                            /\ n.pc \in {"collect", "clean_meta"}
                            /\ n.pc = "clean_meta" => n.after.err = NoError
                      /\ o.pc \in {"clean_meta", "clean_keys", "clean_del"} =>
                            (n.pc = "returned" /\ n.ret = o.after /\ n.failure = o.failure)
            /\ \A w \in Workers : wrk'[w] # wrk[w] =>
                  /\ wrk[w].pc \in {"loop", "in_get", "have_task", "store", "incr"} =>
                        (wrk'[w].pc = "loop" /\ wrk'[w].task = NoTask)]_vars
    /\ [][\A j \in Callers : \A k \in ChunkIds :
            (Writes(j, k) = 1 /\ Dropped(j, k)) => incd'[j][k] = 0]_vars

\* the increment of a stored chunk failed: the result is in the store, the
\* chunk is not counted, the worker is back in its loop and the caller waits
C33_Witness ==
    \E j \in Callers :
        /\ faults = 1 /\ Writes(j, 0) = 1 /\ Dropped(j, 0)
        /\ get(results, j, 0) # {} /\ Get(hashes[j], "completed_chunks", 0) = 0
        /\ orch[j].pc = "wait" /\ TotalChunks(j) = 1
        /\ \A w \in Workers : wrk[w].pc = "loop"


\* C34: for total_rows > chunk_size, no chunk of the splitter has more than
\* chunk_size rows when the merge-small-tail rule did not trigger, and every
\* chunk has fewer than 1.5 * chunk_size rows when it did.
C34_ChunkSizeBound ==
    LET n == sp.total_rows
        cs == sp.chunk_size
        merged == n % cs # 0 /\ 2 * (n % cs) < cs
        size(i) == sp.ranges[i].end - sp.ranges[i].start
    IN  (sp.pc = "done" /\ n > cs) =>
            \A i \in 1..Len(sp.ranges) :
                IF merged THEN 2 * size(i) < 3 * cs ELSE size(i) <= cs

\* 70 rows with chunk_size 50: the tail of 20 is merged and the one chunk
\* has 70 rows, more than chunk_size and fewer than 75
C34_Witness ==
    /\ sp.pc = "done" /\ sp.total_rows = 70 /\ sp.chunk_size = 50
    /\ Len(sp.ranges) = 1 /\ sp.ranges[1].end - sp.ranges[1].start = 70

\* the chunk sizes follow the distribution rule: with base = total_rows div
\* num_chunks and remainder = total_rows mod num_chunks for the number of
\* chunks returned, the first remainder chunks have base + 1 rows and the
\* later ones base rows
RemainderFirst ==
    LET n == sp.total_rows
        num_chunks == Len(sp.ranges)
        base == n \div num_chunks
        remainder == n % num_chunks
        size(i) == sp.ranges[i].end - sp.ranges[i].start
    IN  /\ num_chunks >= 1
        /\ \A i \in 1..num_chunks :
              size(i) = IF i <= remainder THEN base + 1 ELSE base

\* C36 as stated: the chunk sizes follow the distribution rule, and 120 rows
\* with chunk_size 50 give three chunks of sizes 40, 40, 40.
C36_SizesAsStated ==
    sp.pc = "done" =>
        /\ RemainderFirst
        /\ (sp.total_rows = 120 /\ sp.chunk_size = 50) =>
              /\ Len(sp.ranges) = 3
              /\ \A i \in 1..Len(sp.ranges) : sp.ranges[i].end - sp.ranges[i].start = 40

\* C36, amended: the chunk sizes follow the distribution rule, and 120 rows
\* with chunk_size 50 give two chunks of sizes 60, 60 (the tail of 20 rows is
\* under half of chunk_size and is merged).
C36_RemainderFirst ==
    sp.pc = "done" =>
        /\ RemainderFirst
        /\ (sp.total_rows = 120 /\ sp.chunk_size = 50) =>
              sp.ranges = <<[start |-> 0, end |-> 60], [start |-> 60, end |-> 120]>>

\* 110 rows with chunk_size 40: base 36, remainder 2, sizes 37, 37, 36
C36_Witness ==
    /\ sp.pc = "done" /\ sp.total_rows = 110 /\ sp.chunk_size = 40
    /\ Len(sp.ranges) = 3 /\ 110 % Len(sp.ranges) = 2
    /\ sp.ranges[2].end - sp.ranges[2].start = 37
    /\ sp.ranges[3].end - sp.ranges[3].start = 36


\* C35: the rows handed to the splitter are, with a search description,
\* exactly the rows the filter marked matching, in original order, and,
\* without one, all rows of the input in original order, whatever the index
\* labels of the table (a table without rows, or without a matching row, is
\* returned early and nothing is handed over).
C35_RowSelection ==
    sp.pc = "done" =>
        LET df == sp.df
            marked == {p \in sp.matches : p < Len(df)}
            expected == IF sp.search
                        THEN [k \in 1..Cardinality(marked) |->
                                 df[SortedSeq(marked)[k] + 1].id]
                        ELSE Ids(df)
        IN  IF expected = <<>> THEN ~sp.out.called
            ELSE sp.out.called /\ Ids(sp.out.handed) = expected


\* C6: the ranges of the splitter are contiguous from 0, end at total_rows,
\* and none is empty.
C6_ExactCover ==
    sp.pc = "done" =>
        LET r == sp.ranges
        IN  /\ Len(r) > 0 => (r[1].start = 0 /\ r[Len(r)].end = sp.total_rows)
            /\ Len(r) = 0 => sp.total_rows = 0
            /\ \A i \in 1..(Len(r) - 1) : r[i].end = r[i + 1].start
            /\ \A i \in 1..Len(r) : r[i].start < r[i].end

====
